---------------------------- MODULE Spec2Model ----------------------------
(***************************************************************************)
(* The two MQTT programs of the repository and the bus between them.       *)
(*                                                                         *)
(*   src/sim/BMS_sim.cpp      the charger simulator: main() connects,      *)
(*                            subscribes to openevse/rapi/in/# and then    *)
(*                            publishes "Charger is idle" every 5 s;       *)
(*                            callback::message_arrived answers a command  *)
(*                            topic with a status text.                    *)
(*   src/sim/charger_sim.cpp  the controller: main() connects, subscribes  *)
(*                            to four topics and publishes a fixed script  *)
(*                            of five commands separated by sleeps;        *)
(*                            callback::message_arrived prints what it     *)
(*                            receives.                                    *)
(*                                                                         *)
(* Time is a discrete clock counted in seconds.  A sleep lasts exactly its *)
(* argument; connect()->wait() and disconnect()->wait() last until the     *)
(* broker has answered, which takes a bounded time that differs from one   *)
(* process and one run to the next (so the two programs do not reach their *)
(* first statement after connect at the same instant); any other statement *)
(* takes no time.  A call into the client library may throw; neither       *)
(* program catches anything, so a throw ends the process: the handler of   *)
(* the charger included, whose exception leaves the callback the library   *)
(* calls.  The callback of the charger runs on the library's thread and    *)
(* shares no lock with main: it prints the message (a write to stdout,     *)
(* which can take time) and then publishes, and main's loop can publish    *)
(* between the two.  The library calls the callback for one message at a   *)
(* time.                                                                   *)
(* The broker is not code of the repository: it is modelled as the channel *)
(* the specification describes (delivery after a delay, in any order       *)
(* across topics, possibly more than once); the delay is bounded.          *)
(***************************************************************************)
EXTENDS Integers, Sequences, FiniteSets, Bags, TLC

\* ------------------------------------------------------------------ bounds
\* The clock stops at MaxTime (the script of the controller lasts 17 s).
MaxTime == 18
\* How many messages are sent beyond those the two programs publish: copies
\* the channel makes, and messages of publishers other than the two.
MaxExtra == 1
\* The channel delivers a message at most MaxDelay seconds after its publish.
MaxDelay == 1
\* A process is started and its connect()->wait() has returned (or thrown)
\* at most MaxConnectWait seconds after 0 s; disconnect()->wait() returns (or
\* throws) at most MaxConnectWait seconds after the call.
MaxConnectWait == 1
\* The callback of the charger publishes (or returns) at most MaxHold seconds
\* after it has printed the message: the time its write to stdout can take.
MaxHold == 1

\* ------------------------------------------------------- program constants
\* BMS_sim.cpp:52  this_thread::sleep_for(chrono::seconds(5))
HeartbeatPeriod == 5
\* charger_sim.cpp:47, 53, 59  the three sleeps of the script
SettleDelay == 2
ChargeDelay == 5
V2GDelay == 10

\* BASE_TOPIC "/rapi/in/$SC" and the others, with BASE_TOPIC "openevse"
TopicSC == "openevse/rapi/in/$SC"
TopicFE == "openevse/rapi/in/$FE"
TopicV2G == "openevse/rapi/in/$V2G"
TopicFS == "openevse/rapi/in/$FS"
TopicUnknown == "openevse/rapi/in/$UNKNOWN"
TopicStatus == "openevse/status"

\* The topics the controller subscribes to, in the order of its calls.
SubTopics == << "openevse/status", "openevse/amp", "openevse/volt", "openevse/wh" >>

Msg(t, p) == [topic |-> t, payload |-> p]

\* The five send_command calls of the controller's main, in program order.
Script ==
    << Msg(TopicSC, "32"), Msg(TopicFE, ""), Msg(TopicV2G, "1"),
       Msg(TopicSC, "-20"), Msg(TopicFS, "") >>

\* A script without the 10 s wait before Stop.
WaitBeforeStopNone(k) ==
    CASE k = 1 -> SettleDelay
      [] k = 3 -> ChargeDelay
      [] OTHER -> 0

\* The sleep_for that precedes the k-th send_command (0: none).
WaitBefore(k) ==
    CASE k = 1 -> SettleDelay
      [] k = 3 -> ChargeDelay
      [] k = 5 -> V2GDelay
      [] OTHER -> 0

\* Messages that publishers other than the controller put on rapi/in/#:
\* a current that is no number, an unknown suffix, a stop.
EnvMsgs == { Msg(TopicSC, "abc"), Msg(TopicUnknown, "x"), Msg(TopicFS, "") }

\* Every message that can be in flight towards the charger.
AllMsgs == EnvMsgs \cup { Script[i] : i \in 1..Len(Script) }

\* Messages that publishers other than the charger simulator put on the
\* telemetry topics the controller subscribes to.
EnvTelemetry ==
    { Msg("openevse/amp", "16"), Msg("openevse/volt", "230"), Msg("openevse/wh", "1200") }

\* The charger keeps no operating mode: class callback has the single member
\* `client`, main has client, cb and connOpts, and no statement creates or
\* assigns a mode.  chargerState carries this value throughout.
NoState == "none"

VARIABLES
    now,              \* the clock, in seconds
    chgPc,            \* charger main: connect, subscribe, publish, sleep, failed
    hbWake,           \* when the charger's sleep_for ends
    chargerState,     \* the operating mode held by the charger process
    chargerReceived,  \* the charger's "Charger received:" lines: messages handled, in order
    inCallback,       \* << [msg, at] >> while message_arrived is between its print (made
                      \* at `at`) and its return, << >> otherwise
    statusPublished,  \* every text the charger published on openevse/status, in order
    cmdInFlight,      \* bag of [msg, at]: messages in flight towards the charger, published at `at`
    statusInFlight,   \* sequence of [msg, at]: statuses in flight towards the controller
    dupCount,         \* copies the channel has added
    envCount,         \* messages other publishers have sent
    ctrlPc,           \* controller main: connect, subscribe, sleep, send, disconnect, done, failed
    ctrlSubs,         \* how many of SubTopics the controller has subscribed to
    ctrlWake,         \* when the controller's sleep_for ends
    ctrlPublished,    \* the commands the controller has published, in order
    ctrlPubTimes,     \* the clock at each of those publishes
    ctrlReceived,     \* the controller's "Received:" lines: messages handled, in order
    ctrlFailedAt      \* the call that threw in the controller, or "none"

vars ==
    << now, chgPc, hbWake, chargerState, chargerReceived, inCallback, statusPublished,
       cmdInFlight, statusInFlight, dupCount, envCount, ctrlPc, ctrlSubs,
       ctrlWake, ctrlPublished, ctrlPubTimes, ctrlReceived, ctrlFailedAt >>

chargerVars ==
    << chgPc, hbWake, chargerState, chargerReceived, inCallback, statusPublished >>
channelVars == << cmdInFlight, statusInFlight, dupCount, envCount >>
ctrlVars ==
    << ctrlPc, ctrlSubs, ctrlWake, ctrlPublished, ctrlPubTimes, ctrlReceived,
       ctrlFailedAt >>

\* What main of the controller owns, apart from its position.
ctrlMainVars == << ctrlSubs, ctrlWake, ctrlPublished, ctrlPubTimes, ctrlFailedAt >>

Init ==
    /\ now = 0
    /\ chgPc = "connect"
    /\ hbWake = 0
    /\ chargerState = NoState
    /\ chargerReceived = << >>
    /\ inCallback = << >>
    /\ statusPublished = << >>
    /\ cmdInFlight = EmptyBag
    /\ statusInFlight = << >>
    /\ dupCount = 0
    /\ envCount = 0
    /\ ctrlPc = "connect"
    /\ ctrlSubs = 0
    /\ ctrlWake = 0
    /\ ctrlPublished = << >>
    /\ ctrlPubTimes = << >>
    /\ ctrlReceived = << >>
    /\ ctrlFailedAt = "none"

\* --------------------------------------------------------------- channel
\* The charger's subscription to rapi/in/# is in place once main has passed
\* client.subscribe and for as long as the process lives.
ChargerSubscribed == chgPc \in {"publish", "sleep"}

\* The controller's client is connected from connect() to disconnect().
CtrlConnected == ctrlPc \in {"subscribe", "sleep", "send", "disconnect"}

\* The controller has made its subscription to `topic`.
CtrlSubscribedTo(topic) == \E i \in 1..ctrlSubs : SubTopics[i] = topic

\* The controller is handed what is published on openevse/status while it is
\* connected and its subscription to that topic (the first of the four) is made.
CtrlListening == CtrlConnected /\ CtrlSubscribedTo(TopicStatus)

\* The broker routes a message published on rapi/in/# to the charger when it
\* is subscribed and drops it otherwise (clean session, no retained message).
Route(m) ==
    IF ChargerSubscribed
    THEN cmdInFlight (+) SetToBag({[msg |-> m, at |-> now]})
    ELSE cmdInFlight

\* The broker routes the texts published on openevse/status to the
\* controller when it is subscribed and drops them otherwise.  Messages of
\* one topic stay in the order published.
RouteStatus(texts) ==
    IF CtrlListening
    THEN statusInFlight
             \o [i \in 1..Len(texts) |-> [msg |-> Msg(TopicStatus, texts[i]), at |-> now]]
    ELSE statusInFlight

\* The messages in flight towards the charger that are copies of m.
InFlight(m) == { e \in BagToSet(cmdInFlight) : e.msg = m }

\* At-least-once delivery: a message in flight is delivered once more.
Duplicate(m) ==
    /\ dupCount + envCount < MaxExtra
    /\ \E e \in InFlight(m) : cmdInFlight' = cmdInFlight (+) SetToBag({e})
    /\ dupCount' = dupCount + 1
    /\ UNCHANGED << now, statusInFlight, envCount, chargerVars, ctrlVars >>

\* At-least-once delivery: the i-th status in flight is delivered once more.
DuplicateStatus(i) ==
    /\ dupCount + envCount < MaxExtra
    /\ i \in 1..Len(statusInFlight)
    /\ statusInFlight' =
           SubSeq(statusInFlight, 1, i) \o SubSeq(statusInFlight, i, Len(statusInFlight))
    /\ dupCount' = dupCount + 1
    /\ UNCHANGED << now, cmdInFlight, envCount, chargerVars, ctrlVars >>

\* Another publisher sends m on the command namespace while the charger is
\* subscribed (a message published to no subscriber goes nowhere).
EnvPublish(m) ==
    /\ dupCount + envCount < MaxExtra
    /\ ChargerSubscribed
    /\ envCount' = envCount + 1
    /\ cmdInFlight' = Route(m)
    /\ UNCHANGED << now, statusInFlight, dupCount, chargerVars, ctrlVars >>

\* ------------------------------------------- controller: the callback
\* A callback that ends main's wait when a message arrives.
OnStatusAck(pc, m) == IF pc = "sleep" THEN "send" ELSE pc

\* What callback::message_arrived of the controller does to main's position
\* when m is delivered: nothing, it only prints the message.
OnStatus(pc, m) == pc

\* The messages the broker may hand to the controller: the statuses in
\* flight, and telemetry of other publishers.
CtrlInbox ==
    EnvTelemetry \cup { statusInFlight[i].msg : i \in 1..Len(statusInFlight) }

\* callback::message_arrived of the controller, run by its client library
\* for one message: the oldest status in flight, or a message another
\* publisher has sent on a telemetry topic the controller subscribes to.
\* The callback prints the message.
CtrlMessageArrived(m) ==
    /\ CtrlConnected
    /\ \/ /\ statusInFlight # << >>
          /\ m = Head(statusInFlight).msg
          /\ statusInFlight' = Tail(statusInFlight)
          /\ UNCHANGED envCount
       \/ /\ m \in EnvTelemetry
          /\ CtrlSubscribedTo(m.topic)
          /\ dupCount + envCount < MaxExtra
          /\ envCount' = envCount + 1
          /\ UNCHANGED statusInFlight
    /\ ctrlReceived' = Append(ctrlReceived, m)
    /\ ctrlPc' = OnStatus(ctrlPc, m)
    /\ UNCHANGED << now, chargerVars, cmdInFlight, dupCount, ctrlMainVars >>

\* --------------------------------------------------------------- charger
\* main: client.connect(connOpts)->wait() returns.
ChargerConnect ==
    /\ chgPc = "connect"
    /\ chgPc' = "subscribe"
    /\ UNCHANGED << now, hbWake, chargerState, chargerReceived, inCallback,
                    statusPublished, channelVars, ctrlVars >>

\* main: client.subscribe(BASE_TOPIC "/rapi/in/#", 1), then the loop is entered.
ChargerSubscribe ==
    /\ chgPc = "subscribe"
    /\ chgPc' = "publish"
    /\ UNCHANGED << now, hbWake, chargerState, chargerReceived, inCallback,
                    statusPublished, channelVars, ctrlVars >>

\* main: the library call main is at (connect()->wait(), subscribe, the
\* publish of the loop) throws mqtt::exception; nothing catches it and the
\* process ends.  What was in flight towards the charger is delivered to
\* nobody.
ChargerThrow ==
    /\ chgPc \in {"connect", "subscribe", "publish"}
    /\ chgPc' = "failed"
    /\ cmdInFlight' = EmptyBag
    /\ UNCHANGED << now, hbWake, chargerState, chargerReceived, inCallback,
                    statusPublished, statusInFlight, dupCount, envCount, ctrlVars >>

\* A heartbeat that is left out when a response was published since the
\* last one.
HeartbeatTextIfQuiet ==
    IF statusPublished # << >> /\ statusPublished[Len(statusPublished)] # "Charger is idle"
    THEN << >>
    ELSE << "Charger is idle" >>

\* What one pass of the loop publishes: the heartbeat, whatever has arrived.
HeartbeatText == << "Charger is idle" >>

\* When the sleep_for started at `t` ends.
SleepUntil(t) == t + HeartbeatPeriod

\* A loop body that publishes the heartbeat only when no response has been
\* published since the heartbeat before, and sleeps either way.
HeartbeatPublishIfQuiet ==
    /\ chgPc = "publish"
    /\ LET n == Len(statusPublished)
           out == IF n > 0 /\ statusPublished[n] # "Charger is idle"
                  THEN << >> ELSE HeartbeatText
       IN  /\ statusPublished' = statusPublished \o out
           /\ statusInFlight' = RouteStatus(out)
    /\ hbWake' = SleepUntil(now)
    /\ chgPc' = "sleep"
    /\ UNCHANGED << now, chargerState, chargerReceived, inCallback, cmdInFlight,
                    dupCount, envCount, ctrlVars >>

\* The loop body: publish the heartbeat, then sleep_for(5 s).
HeartbeatPublish ==
    /\ chgPc = "publish"
    /\ statusPublished' = statusPublished \o HeartbeatText
    /\ statusInFlight' = RouteStatus(HeartbeatText)
    /\ hbWake' = SleepUntil(now)
    /\ chgPc' = "sleep"
    /\ UNCHANGED << now, chargerState, chargerReceived, inCallback, cmdInFlight,
                    dupCount, envCount, ctrlVars >>

\* sleep_for returns and the loop starts over.
HeartbeatWake ==
    /\ chgPc = "sleep"
    /\ now >= hbWake
    /\ chgPc' = "publish"
    /\ UNCHANGED << now, hbWake, chargerState, chargerReceived, inCallback,
                    statusPublished, channelVars, ctrlVars >>

\* Response with the texts of $FE and $FS exchanged.
ResponseSwapped(m) ==
    CASE m.topic = TopicSC -> << "Charging current set" >>
      [] m.topic = TopicFE -> << "Charging stopped" >>
      [] m.topic = TopicV2G -> << "V2G mode enabled" >>
      [] m.topic = TopicFS -> << "Charging started" >>
      [] OTHER -> << >>

\* Response with a final else branch that reports the unknown topic.
ResponseElse(m) ==
    CASE m.topic = TopicSC -> << "Charging current set" >>
      [] m.topic = TopicFE -> << "Charging started" >>
      [] m.topic = TopicV2G -> << "V2G mode enabled" >>
      [] m.topic = TopicFS -> << "Charging stopped" >>
      [] OTHER -> << "Unknown command" >>

\* Response that answers $SC only when the payload is a signed number.
ResponseParsed(m) ==
    CASE m.topic = TopicSC /\ m.payload \in {"32", "-20"} -> << "Charging current set" >>
      [] m.topic = TopicFE -> << "Charging started" >>
      [] m.topic = TopicV2G -> << "V2G mode enabled" >>
      [] m.topic = TopicFS -> << "Charging stopped" >>
      [] OTHER -> << >>

\* Response that publishes each text twice.
ResponseTwice(m) ==
    CASE m.topic = TopicSC -> << "Charging current set", "Charging current set" >>
      [] m.topic = TopicFE -> << "Charging started", "Charging started" >>
      [] m.topic = TopicV2G -> << "V2G mode enabled", "V2G mode enabled" >>
      [] m.topic = TopicFS -> << "Charging stopped", "Charging stopped" >>
      [] OTHER -> << >>

\* Response that reports the charger idle once it is stopped.
ResponseStopIdle(m) ==
    CASE m.topic = TopicSC -> << "Charging current set" >>
      [] m.topic = TopicFE -> << "Charging started" >>
      [] m.topic = TopicV2G -> << "V2G mode enabled" >>
      [] m.topic = TopicFS -> << "Charger is idle" >>
      [] OTHER -> << >>

\* Response that reports bidirectional operation as a started charge.
ResponseV2GAsStart(m) ==
    CASE m.topic = TopicSC -> << "Charging current set" >>
      [] m.topic = TopicFE -> << "Charging started" >>
      [] m.topic = TopicV2G -> << "Charging started" >>
      [] m.topic = TopicFS -> << "Charging stopped" >>
      [] OTHER -> << >>

\* The if / else-if chain of callback::message_arrived: the texts published
\* for message m (one for a command topic, none otherwise).  The payload is
\* read into a local and printed, and takes no part in the choice.
Response(m) ==
    CASE m.topic = TopicSC -> << "Charging current set" >>
      [] m.topic = TopicFE -> << "Charging started" >>
      [] m.topic = TopicV2G -> << "V2G mode enabled" >>
      [] m.topic = TopicFS -> << "Charging stopped" >>
      [] OTHER -> << >>

\* The message message_arrived is handling (between its print and its return).
Handled == inCallback[1].msg

\* The library's thread is inside message_arrived.
InCallback == ChargerSubscribed /\ inCallback # << >>

\* A handler that main runs itself between two sleeps: a message is taken up
\* only once the sleep_for of the loop has run out.
MessageArrivedAtWake(m) ==
    /\ chgPc = "sleep"
    /\ now >= hbWake
    /\ inCallback = << >>
    /\ \E e \in InFlight(m) : cmdInFlight' = cmdInFlight (-) SetToBag({e})
    /\ chargerReceived' = Append(chargerReceived, m)
    /\ inCallback' = << [msg |-> m, at |-> now] >>
    /\ UNCHANGED << now, chgPc, hbWake, chargerState, statusPublished, statusInFlight,
                    dupCount, envCount, ctrlVars >>

\* callback::message_arrived, first part: the client library, which calls the
\* callback for one message at a time, hands it a delivered message; the
\* callback reads topic and payload and prints the "Charger received:" line.
MessageArrived(m) ==
    /\ ChargerSubscribed
    /\ inCallback = << >>
    /\ \E e \in InFlight(m) : cmdInFlight' = cmdInFlight (-) SetToBag({e})
    /\ chargerReceived' = Append(chargerReceived, m)
    /\ inCallback' = << [msg |-> m, at |-> now] >>
    /\ UNCHANGED << now, chgPc, hbWake, chargerState, statusPublished, statusInFlight,
                    dupCount, envCount, ctrlVars >>

\* A publish step that rejects StartCharge until a current has been set.
MessageArrivedPublishGuarded ==
    /\ InCallback
    /\ LET m == Handled
           known == \E i \in 1..(Len(chargerReceived) - 1) :
                        chargerReceived[i].topic = TopicSC
           out == IF m.topic = TopicFE /\ ~known THEN << >> ELSE Response(m)
       IN  /\ statusPublished' = statusPublished \o out
           /\ statusInFlight' = RouteStatus(out)
    /\ inCallback' = << >>
    /\ UNCHANGED << now, chgPc, hbWake, chargerState, chargerReceived, cmdInFlight,
                    dupCount, envCount, ctrlVars >>

\* A publish step that does not answer a message equal to the one handled
\* before.
MessageArrivedPublishDedup ==
    /\ InCallback
    /\ LET m == Handled
           n == Len(chargerReceived)
           same == n >= 2 /\ chargerReceived[n - 1] = m
           out == IF same THEN << >> ELSE Response(m)
       IN  /\ statusPublished' = statusPublished \o out
           /\ statusInFlight' = RouteStatus(out)
    /\ inCallback' = << >>
    /\ UNCHANGED << now, chgPc, hbWake, chargerState, chargerReceived, cmdInFlight,
                    dupCount, envCount, ctrlVars >>

\* A publish step that remembers a started charge: a current set after
\* StartCharge is answered and the running charge is reported again.
MessageArrivedPublishSticky ==
    /\ InCallback
    /\ LET m == Handled
           n == Len(chargerReceived)
           started == n >= 2 /\ chargerReceived[n - 1].topic = TopicFE
           out == IF m.topic = TopicSC /\ started
                  THEN Response(m) \o << "Charging started" >>
                  ELSE Response(m)
       IN  /\ statusPublished' = statusPublished \o out
           /\ statusInFlight' = RouteStatus(out)
    /\ inCallback' = << >>
    /\ UNCHANGED << now, chgPc, hbWake, chargerState, chargerReceived, cmdInFlight,
                    dupCount, envCount, ctrlVars >>

\* A publish step that keeps an operating mode: a command on $SC, $FE, $V2G
\* or $FS sets it.
MessageArrivedPublishStateful ==
    /\ InCallback
    /\ statusPublished' = statusPublished \o Response(Handled)
    /\ statusInFlight' = RouteStatus(Response(Handled))
    /\ chargerState' = IF Response(Handled) # << >> THEN Response(Handled)[1]
                       ELSE chargerState
    /\ inCallback' = << >>
    /\ UNCHANGED << now, chgPc, hbWake, chargerReceived, cmdInFlight, dupCount,
                    envCount, ctrlVars >>

\* callback::message_arrived, second part: the if / else-if chain publishes
\* the response of the message printed (nothing when no branch matches), the
\* publish returns, and the callback returns to the library.
MessageArrivedPublish ==
    /\ InCallback
    /\ statusPublished' = statusPublished \o Response(Handled)
    /\ statusInFlight' = RouteStatus(Response(Handled))
    /\ inCallback' = << >>
    /\ UNCHANGED << now, chgPc, hbWake, chargerState, chargerReceived, cmdInFlight,
                    dupCount, envCount, ctrlVars >>

\* callback::message_arrived, second part, when its client.publish throws:
\* nothing is published, and the exception leaves the callback, which nothing
\* catches: the process ends.  What else was in flight towards the charger
\* is delivered to nobody.
MessageArrivedThrow ==
    /\ InCallback
    /\ Response(Handled) # << >>
    /\ cmdInFlight' = EmptyBag
    /\ inCallback' = << >>
    /\ chgPc' = "failed"
    /\ UNCHANGED << now, hbWake, chargerState, chargerReceived, statusPublished,
                    statusInFlight, dupCount, envCount, ctrlVars >>

\* ------------------------------------------------------ controller: main
\* main: client.connect(connOpts)->wait() returns.
CtrlConnect ==
    /\ ctrlPc = "connect"
    /\ ctrlPc' = "subscribe"
    /\ UNCHANGED << now, chargerVars, channelVars, ctrlMainVars, ctrlReceived >>

\* main: the next of the four client.subscribe calls; after the last one
\* sleep_for(seconds(2)) starts.
CtrlSubscribe ==
    /\ ctrlPc = "subscribe"
    /\ ctrlSubs' = ctrlSubs + 1
    /\ IF ctrlSubs + 1 = Len(SubTopics)
       THEN /\ ctrlPc' = "sleep"
            /\ ctrlWake' = now + WaitBefore(1)
       ELSE UNCHANGED << ctrlPc, ctrlWake >>
    /\ UNCHANGED << now, chargerVars, channelVars, ctrlPublished, ctrlPubTimes,
                    ctrlReceived, ctrlFailedAt >>

\* A wait that ends only once a message has been received.
CtrlWakeOnStatus ==
    /\ ctrlPc = "sleep"
    /\ now >= ctrlWake
    /\ ctrlReceived # << >>
    /\ ctrlPc' = "send"
    /\ UNCHANGED << now, chargerVars, channelVars, ctrlMainVars, ctrlReceived >>

\* sleep_for returns.
CtrlWake ==
    /\ ctrlPc = "sleep"
    /\ now >= ctrlWake
    /\ ctrlPc' = "send"
    /\ UNCHANGED << now, chargerVars, channelVars, ctrlMainVars, ctrlReceived >>

\* A script without its sleeps between the sends.
AfterSendNoSleep(k) == IF k = Len(Script) THEN "disconnect" ELSE "send"

\* Where main goes after its k-th send_command has returned.
AfterSend(k) ==
    IF k = Len(Script) THEN "disconnect"
    ELSE IF WaitBefore(k + 1) > 0 THEN "sleep"
    ELSE "send"

\* send_command: client.publish(pubmsg) returns; main goes on to the next
\* statement (a sleep_for, the next send_command or disconnect).
CtrlSend ==
    /\ ctrlPc = "send"
    /\ LET k == Len(ctrlPublished) + 1 IN
         /\ ctrlPublished' = Append(ctrlPublished, Script[k])
         /\ ctrlPubTimes' = Append(ctrlPubTimes, now)
         /\ cmdInFlight' = Route(Script[k])
         /\ ctrlPc' = AfterSend(k)
         /\ ctrlWake' = IF AfterSend(k) = "sleep" THEN now + WaitBefore(k + 1)
                        ELSE ctrlWake
    /\ UNCHANGED << now, chargerVars, statusInFlight, dupCount, envCount, ctrlSubs,
                    ctrlReceived, ctrlFailedAt >>

\* main: client.disconnect()->wait() returns; main returns 0.  The broker
\* delivers nothing more to the controller.
CtrlDisconnect ==
    /\ ctrlPc = "disconnect"
    /\ ctrlPc' = "done"
    /\ statusInFlight' = << >>
    /\ UNCHANGED << now, chargerVars, cmdInFlight, dupCount, envCount,
                    ctrlMainVars, ctrlReceived >>

\* A main that catches the exception and makes the call again.
AfterThrowRetry(pc) == pc

\* Where main is after a library call made at `pc` has thrown mqtt::exception:
\* main has no try block, so the exception leaves main and the process is
\* terminated.
AfterThrow(pc) == "failed"

\* A call into the client library (connect, subscribe, publish, disconnect)
\* throws.  The broker delivers nothing more to the controller.
CtrlThrow ==
    /\ ctrlPc \in {"connect", "subscribe", "send", "disconnect"}
    /\ ctrlFailedAt = "none"
    /\ ctrlFailedAt' = ctrlPc
    /\ ctrlPc' = AfterThrow(ctrlPc)
    /\ statusInFlight' = IF AfterThrow(ctrlPc) = "failed" THEN << >> ELSE statusInFlight
    /\ UNCHANGED << now, chargerVars, cmdInFlight, dupCount, envCount, ctrlSubs,
                    ctrlWake, ctrlPublished, ctrlPubTimes, ctrlReceived >>

\* ------------------------------------------------------------------ time
\* A process acts before the clock advances when it is at a statement that
\* takes no time, when its sleep has run out, or when the answer of the
\* broker it waits for in connect()->wait() or disconnect()->wait() is
\* MaxConnectWait seconds old.  The charger calls connect at 0 s.
ChargerDue ==
    \/ chgPc \in {"subscribe", "publish"}
    \/ (chgPc = "connect" /\ now >= MaxConnectWait)
    \/ (chgPc = "sleep" /\ now >= hbWake)

\* The controller calls connect at 0 s, and disconnect right after its last
\* publish.
CtrlDue ==
    \/ ctrlPc \in {"subscribe", "send"}
    \/ (ctrlPc = "connect" /\ now >= MaxConnectWait)
    \/ (ctrlPc = "disconnect"
            /\ now >= ctrlPubTimes[Len(ctrlPubTimes)] + MaxConnectWait)
    \/ (ctrlPc = "sleep" /\ now >= ctrlWake)

\* The channel owes a delivery now: a command published MaxDelay ago, which
\* the library can hand to the callback (it is not inside it).
ChannelDue ==
    /\ inCallback = << >>
    /\ \E e \in BagToSet(cmdInFlight) : now >= e.at + MaxDelay

\* The callback of the charger printed its message MaxHold ago: it goes on.
CallbackDue == InCallback /\ now >= inCallback[1].at + MaxHold

\* The channel owes the controller a status published MaxDelay ago.
StatusDue ==
    /\ CtrlConnected
    /\ statusInFlight # << >>
    /\ now >= Head(statusInFlight).at + MaxDelay

\* A process of the two is running.
Running ==
    \/ chgPc # "failed"
    \/ ctrlPc \notin {"done", "failed"}

Tick ==
    /\ now < MaxTime
    /\ Running
    /\ ~ChargerDue
    /\ ~CtrlDue
    /\ ~ChannelDue
    /\ ~CallbackDue
    /\ ~StatusDue
    /\ now' = now + 1
    /\ UNCHANGED << chargerVars, channelVars, ctrlVars >>

ChargerNext ==
    \/ ChargerConnect
    \/ ChargerSubscribe
    \/ ChargerThrow
    \/ HeartbeatPublish
    \/ HeartbeatWake
    \/ \E m \in AllMsgs : MessageArrived(m)
    \/ MessageArrivedPublish
    \/ MessageArrivedThrow

ChannelNext ==
    \/ \E m \in AllMsgs : Duplicate(m)
    \/ \E i \in 1..Len(statusInFlight) : DuplicateStatus(i)
    \/ \E m \in EnvMsgs : EnvPublish(m)

CtrlNext ==
    \/ CtrlConnect
    \/ CtrlSubscribe
    \/ CtrlWake
    \/ CtrlSend
    \/ CtrlDisconnect
    \/ CtrlThrow

\* The controller's client library runs the callback.
CtrlCallback == \E m \in CtrlInbox : CtrlMessageArrived(m)

Next == ChargerNext \/ ChannelNext \/ CtrlNext \/ CtrlCallback \/ Tick

Spec == Init /\ [][Next]_vars

\* ------------------------------------------------------- fair scheduling
\* Each thread is scheduled: the statement main of the charger is at ends
\* (by returning or by throwing), the client library of the charger calls the
\* callback for a message it holds and the callback runs to its end, the statement main of the controller is
\* at ends, the client library of the controller runs the callback for a
\* status it holds, and the clock advances when nothing is left to do at the
\* current instant.
Fairness ==
    /\ WF_vars(ChargerConnect \/ ChargerSubscribe \/ ChargerThrow
                  \/ HeartbeatPublish \/ HeartbeatWake)
    /\ WF_vars(\E m \in AllMsgs : MessageArrived(m))
    /\ WF_vars(MessageArrivedPublish \/ MessageArrivedThrow)
    /\ WF_vars(CtrlNext)
    /\ WF_vars(statusInFlight # << >> /\ CtrlMessageArrived(Head(statusInFlight).msg))
    /\ WF_vars(Tick)

FairSpec == Spec /\ Fairness

\* ================================================================ claims
\* The transition table of the charger state machine: command topic ->
\* status text and new state.
CommandTopics == {TopicSC, TopicFE, TopicV2G, TopicFS}
Recognised(m) == m.topic \in CommandTopics

TableStatus(topic) ==
    CASE topic = TopicSC -> "Charging current set"
      [] topic = TopicFE -> "Charging started"
      [] topic = TopicV2G -> "V2G mode enabled"
      [] topic = TopicFS -> "Charging stopped"

TableState(topic) ==
    CASE topic = TopicSC -> "CurrentConfigured"
      [] topic = TopicFE -> "Charging"
      [] topic = TopicV2G -> "Bidirectional"
      [] topic = TopicFS -> "Idle"

\* The payloads that parse as a signed number.
Numeric == {"32", "-20"}

\* This step is the charger's handler taking up message m (it prints it).
Handles(m) == chargerReceived' = Append(chargerReceived, m)

\* This step is the handler of message m coming to its end: the second part
\* of the processing of m, after the print.
Answers(m) == InCallback /\ Handled = m /\ inCallback' = << >>

\* The charger runs and its handler is not in the middle of a message.
ChargerQuiet == ChargerSubscribed /\ inCallback = << >>

\* This step is the handler's publish throwing: nothing is published and the
\* charger process ends (the transport failure no code handles).
PublishThrows == chgPc' = "failed" /\ statusPublished' = statusPublished

\* This step is the handler publishing `text` and returning.
Publishes(text) == statusPublished' = Append(statusPublished, text) /\ chgPc' = chgPc

\* The status texts other than the heartbeat, in the order published.
IsResponse(t) == t # "Charger is idle"
Responses(log) == SelectSeq(log, IsResponse)

\* Sequence a is the beginning of sequence b.
IsPrefix(a, b) == Len(a) <= Len(b) /\ a = SubSeq(b, 1, Len(a))

\* The recognised commands the charger has handled, in order.
HandledCommands == SelectSeq(chargerReceived, Recognised)

\* How many commands taken up have no response yet: the one the handler is
\* at, or the one whose handler did not come to its end (0 or 1 commands).
Unanswered == Len(HandledCommands) - Len(Responses(statusPublished))

\* The topics of the messages the charger has handled.
HandledTopics == { chargerReceived[i].topic : i \in 1..Len(chargerReceived) }

\* ---- C1 ----------------------------------------------------------------
\* C1 as stated: processing a recognised command moves the charger to the
\* table's state and publishes the table's status text.
C1_TableTransition ==
    [][\A m \in AllMsgs :
          (Answers(m) /\ Recognised(m)) =>
              /\ chargerState' = TableState(m.topic)
              /\ statusPublished' = Append(statusPublished, TableStatus(m.topic))]_vars

\* C1 as amended: whatever was handled before and whatever the payload,
\* processing a recognised command publishes exactly the table's status text
\* (no command is rejected: a command printed is a command the handler is
\* about to answer, and the handler ends by publishing the text; a command
\* printed stays unanswered only when the process has ended, by this publish
\* throwing or by a library call of main throwing meanwhile), and it leaves
\* the charger without an operating state: the handler assigns none.
C1_StatusTotal ==
    [][\A m \in AllMsgs :
          /\ (Answers(m) /\ Recognised(m)) =>
                 /\ Publishes(TableStatus(m.topic)) \/ PublishThrows
                 /\ chargerState' = chargerState
                 /\ chargerState = NoState
          /\ (Handles(m) /\ Recognised(m)) =>
                 /\ InCallback'
                 /\ Handled' = m
                 /\ chargerState' = chargerState
          /\ (Unanswered' = 1 /\ ~InCallback') => chgPc' = "failed"]_vars

\* All four command kinds have been handled and answered, StartCharge first
\* (before the SetCurrent the controller published ahead of it).
C1_Witness ==
    /\ CommandTopics \subseteq HandledTopics
    /\ chargerReceived[1].topic = TopicFE
    /\ Len(Responses(statusPublished)) >= 5

\* ---- C2 ----------------------------------------------------------------
\* C2: a message on rapi/in/# whose suffix is none of $SC, $FE, $V2G, $FS
\* changes no charger state and publishes nothing, and the charger goes on
\* (its main loop and its subscription are as before).
C2_UnknownIgnored ==
    [][\A m \in AllMsgs :
          ((Handles(m) \/ Answers(m)) /\ ~Recognised(m)) =>
              /\ statusPublished' = statusPublished
              /\ chargerState' = chargerState
              /\ chgPc' = chgPc
              /\ ChargerSubscribed']_vars

\* $UNKNOWN "x" was handled, and a command handled after it was answered.
C2_Witness ==
    \E i \in 1..Len(chargerReceived) :
        /\ chargerReceived[i] = Msg(TopicUnknown, "x")
        /\ i < Len(chargerReceived)
        /\ Recognised(chargerReceived[Len(chargerReceived)])
        /\ Len(statusPublished) > 0
        /\ statusPublished[Len(statusPublished)]
               = TableStatus(chargerReceived[Len(chargerReceived)].topic)

\* ---- C3 ----------------------------------------------------------------
\* C3 as stated: a message on a command topic whose payload does not parse
\* ($SC with a payload that is no signed number) is ignored: no status is
\* published and the state is unchanged.
C3_UnparsableIgnored ==
    [][\A m \in AllMsgs :
          ((Handles(m) \/ Answers(m)) /\ m.topic = TopicSC /\ m.payload \notin Numeric) =>
              /\ statusPublished' = statusPublished
              /\ chargerState' = chargerState]_vars

\* C3 as amended: the payload is never parsed; $SC with a payload that is no
\* signed number is processed like any SetCurrent: "Charging current set" is
\* published, unless that publish throws and ends the process (the charger
\* state, which does not exist, is unchanged).
C3_UnparsableAnswered ==
    [][\A m \in AllMsgs :
          (Answers(m) /\ m.topic = TopicSC /\ m.payload \notin Numeric) =>
              /\ Publishes("Charging current set") \/ PublishThrows
              /\ chargerState' = chargerState]_vars

\* $SC "abc" was handled and answered with "Charging current set".
C3_Witness ==
    /\ Len(chargerReceived) > 0
    /\ chargerReceived[Len(chargerReceived)] = Msg(TopicSC, "abc")
    /\ Len(statusPublished) > 0
    /\ statusPublished[Len(statusPublished)] = "Charging current set"

\* ---- C4 ----------------------------------------------------------------
\* The responses published so far are the table's texts of the commands
\* handled so far, one each, in the order handled; the one command that can
\* lack its response is the last: the one the handler is at, or the one at
\* which the process ended.
ResponsesInOrder ==
    /\ Unanswered \in {0, 1}
    /\ Unanswered = 1 =>
           \/ chgPc = "failed"
           \/ InCallback /\ Recognised(Handled)
    /\ ChargerQuiet => Unanswered = 0
    /\ \A i \in 1..Len(Responses(statusPublished)) :
           Responses(statusPublished)[i] = TableStatus(HandledCommands[i].topic)

\* C4 as stated: every recognised command processed causes exactly one
\* status publication, never zero and never two: the handler of a recognised
\* command ends with one response added, and a command printed that has no
\* response is one the handler is still at.
C4_ExactlyOne ==
    [][/\ \A m \in AllMsgs :
             (Answers(m) /\ Recognised(m)) =>
                 Len(Responses(statusPublished'))
                     = Len(Responses(statusPublished)) + 1
       /\ Unanswered' \in {0, 1}
       /\ Unanswered' = 1 => InCallback']_vars

\* C4 as amended: with the client library calling the handler for one
\* message at a time (the next is taken up only when the handler is through
\* with the one before), the handler of a recognised command ends with
\* exactly one response added, never two, and with none only when its publish
\* throws, which ends the process: so a command has its response before the
\* next one is taken up, or no next one is taken up at all.  Nothing else
\* adds a response (the loop of main, which runs meanwhile, adds heartbeats
\* only); so the responses appear in the order the commands were processed,
\* and the one command that can lack its response is the last one printed.
C4_OnePerCommand ==
    [][/\ chargerReceived' # chargerReceived =>
             /\ inCallback = << >>
             /\ \E m \in AllMsgs : Handles(m) /\ Handled' = m
             /\ statusPublished' = statusPublished
       /\ \A m \in AllMsgs :
             Answers(m) =>
                 \/ PublishThrows /\ Recognised(m)
                 \/ /\ chgPc' = chgPc
                    /\ Len(Responses(statusPublished'))
                           = Len(Responses(statusPublished))
                                 + (IF Recognised(m) THEN 1 ELSE 0)
       /\ Responses(statusPublished') # Responses(statusPublished) =>
             \E m \in AllMsgs : Answers(m) /\ Recognised(m)
       /\ ResponsesInOrder']_vars

\* SetCurrent(32) and StartCharge were handled back to back and each was
\* answered once, after the first heartbeat.
C4_Witness ==
    /\ chargerReceived = << Msg(TopicSC, "32"), Msg(TopicFE, "") >>
    /\ statusPublished = << "Charger is idle", "Charging current set", "Charging started" >>
    /\ ChargerQuiet

\* ---- C5 ----------------------------------------------------------------
\* How many entries of seq satisfy Test.
Count(seq, Test(_)) == Len(SelectSeq(seq, Test))
IsStop(m) == m.topic = TopicFS
IsStopped(t) == t = "Charging stopped"

\* C5 as stated: Stop yields Idle from any state and publishes "Charging
\* stopped" each time.
C5_StopYieldsIdle ==
    [][\A m \in AllMsgs :
          (Answers(m) /\ IsStop(m)) =>
              /\ chargerState' = "Idle"
              /\ statusPublished' = Append(statusPublished, "Charging stopped")]_vars

\* C5 as amended: Stop emissions are not deduplicated: every Stop handled,
\* a duplicate included, publishes its own "Charging stopped", so n Stops
\* produce n status events (short of one only while the handler is at the
\* last Stop, or when the process ended there); the charger holds no state
\* for Stop to reset.
C5_StopEmissions ==
    /\ ChargerQuiet =>
           Count(statusPublished, IsStopped) = Count(chargerReceived, IsStop)
    /\ Count(chargerReceived, IsStop) - Count(statusPublished, IsStopped) \in {0, 1}
    /\ chargerState = NoState

\* Two Stops were handled in a row and two "Charging stopped" were published
\* in a row.
C5_Witness ==
    LET n == Len(chargerReceived)
        k == Len(statusPublished)
    IN  /\ n >= 2
        /\ IsStop(chargerReceived[n])
        /\ IsStop(chargerReceived[n - 1])
        /\ k >= 2
        /\ IsStopped(statusPublished[k])
        /\ IsStopped(statusPublished[k - 1])
        /\ ChargerQuiet

\* ---- C6 ----------------------------------------------------------------
\* C6 as stated: after any sequence of recognised commands the state is the
\* one the last command assigns, and the responses are the per-command texts
\* in order.
C6_LastWriteWins ==
    /\ ResponsesInOrder
    /\ HandledCommands # << >> =>
           chargerState = TableState(HandledCommands[Len(HandledCommands)].topic)

\* C6 as amended: after any sequence of recognised commands the responses are
\* the per-command texts in the order processed: SetCurrent(32), StartCharge
\* gives "Charging current set", "Charging started"; EnableBidirectional,
\* SetCurrent(-20) gives "V2G mode enabled", "Charging current set".  No
\* final state results: the charger holds none.
C6_StatusOrder ==
    /\ ChargerQuiet =>
           /\ Responses(statusPublished)
                  = [i \in 1..Len(HandledCommands) |->
                         TableStatus(HandledCommands[i].topic)]
           /\ HandledCommands = << Msg(TopicSC, "32"), Msg(TopicFE, "") >> =>
                  Responses(statusPublished)
                      = << "Charging current set", "Charging started" >>
           /\ HandledCommands = << Msg(TopicSC, "32"), Msg(TopicFE, ""),
                                   Msg(TopicV2G, "1"), Msg(TopicSC, "-20") >> =>
                  Responses(statusPublished)
                      = << "Charging current set", "Charging started",
                           "V2G mode enabled", "Charging current set" >>
    /\ IsPrefix(Responses(statusPublished),
                [i \in 1..Len(HandledCommands) |-> TableStatus(HandledCommands[i].topic)])
    /\ chargerState = NoState

\* The first four commands of the script were handled in the order sent.
C6_Witness ==
    /\ HandledCommands = << Msg(TopicSC, "32"), Msg(TopicFE, ""),
                            Msg(TopicV2G, "1"), Msg(TopicSC, "-20") >>
    /\ Len(Responses(statusPublished)) = 4

\* ---- C7 ----------------------------------------------------------------
IsHeartbeat(t) == t = "Charger is idle"
HeartbeatCount == Count(statusPublished, IsHeartbeat)

\* C7 as stated: exactly one heartbeat is published in each period and the
\* processing of a command never suppresses or delays one: the handler, in
\* its print and in its publish, leaves the loop running; a pass of the loop
\* that is due publishes its heartbeat; and once the loop has started the
\* clock never passes a heartbeat that is due.
C7_NeverSuppressed ==
    [][/\ (chargerReceived' # chargerReceived \/ \E m \in AllMsgs : Answers(m)) =>
             /\ chgPc' = chgPc
             /\ hbWake' = hbWake
             /\ HeartbeatCount' = HeartbeatCount
       /\ (chgPc = "publish" /\ chgPc' # chgPc) => HeartbeatCount' = HeartbeatCount + 1
       /\ (now' # now /\ HeartbeatCount > 0) => (chgPc = "sleep" /\ now < hbWake)]_vars

\* C7 as amended: for as long as the charger process runs, the heartbeat
\* keeps its 5 s schedule whether or not commands arrive.
\* A heartbeat after the first is published exactly when the 5 s sleep
\* started at the heartbeat before has run out, one at a time, and it starts
\* the next 5 s sleep; nothing else moves that deadline; the clock does not
\* pass a heartbeat that is due, whether or not the handler is in the middle
\* of a message; and the handler, in its print and in its publish, leaves
\* the loop where it is, its deadline as it is, and publishes no heartbeat.
\* The schedule ends with the process and not before: a publish that throws,
\* in the handler of a command or in the loop, ends the process and with it
\* every later heartbeat.
C7_HeartbeatIndependent ==
    [][/\ HeartbeatCount' # HeartbeatCount =>
             /\ HeartbeatCount' = HeartbeatCount + 1
             /\ HeartbeatCount > 0 => now = hbWake
             /\ hbWake' = now + HeartbeatPeriod
       /\ hbWake' # hbWake => HeartbeatCount' # HeartbeatCount
       /\ (now' # now /\ ChargerSubscribed) => (chgPc = "sleep" /\ now < hbWake)
       /\ (chargerReceived' # chargerReceived \/ \E m \in AllMsgs : Answers(m)) =>
             /\ chgPc' \in {chgPc, "failed"}
             /\ hbWake' = hbWake
             /\ HeartbeatCount' = HeartbeatCount
       /\ (chgPc = "publish" /\ chgPc' = "sleep") => HeartbeatCount' = HeartbeatCount + 1
       /\ (chgPc = "sleep" /\ now >= hbWake) => ENABLED HeartbeatWake]_vars

\* Three heartbeats in three periods, with a response published between the
\* second and the third, and the third published while the handler was in
\* the middle of a command it had printed the second before.
C7_Witness ==
    /\ now >= 10
    /\ HeartbeatCount = 3
    /\ InCallback
    /\ Recognised(Handled)
    /\ inCallback[1].at < now
    /\ hbWake = now + HeartbeatPeriod
    /\ IsHeartbeat(statusPublished[Len(statusPublished)])
    /\ \E i \in 1..Len(statusPublished) :
           /\ IsResponse(statusPublished[i])
           /\ Count(SubSeq(statusPublished, 1, i), IsHeartbeat) = 2

\* ---- C8 ----------------------------------------------------------------
\* The five commands in the order of the protocol sequence.
Sequence ==
    << Msg(TopicSC, "32"), Msg(TopicFE, ""), Msg(TopicV2G, "1"),
       Msg(TopicSC, "-20"), Msg(TopicFS, "") >>

\* C8: without a transport failure the controller publishes nothing before
\* it is connected and has made its subscriptions, publishes the five
\* commands once each in order, waits (5 s, 10 s) between the 2nd and 3rd and
\* between the 4th and 5th, and is disconnected only with all five published.
C8_ScriptOrder ==
    ctrlFailedAt = "none" =>
        /\ IsPrefix(ctrlPublished, Sequence)
        /\ ctrlPc \in {"connect", "subscribe"} => ctrlPublished = << >>
        /\ ctrlPublished # << >> => ctrlSubs = 4
        /\ Len(ctrlPublished) >= 3 => ctrlPubTimes[3] >= ctrlPubTimes[2] + 5
        /\ Len(ctrlPublished) >= 5 => ctrlPubTimes[5] >= ctrlPubTimes[4] + 10
        /\ ctrlPc \in {"disconnect", "done"} <=> ctrlPublished = Sequence

\* The controller has run its script and disconnected.
C8_Witness ==
    /\ ctrlPc = "done"
    /\ ctrlFailedAt = "none"
    /\ Len(ctrlPublished) = 5

\* ---- C9 ----------------------------------------------------------------
\* C9: a step in which the controller receives a status changes neither the
\* position of its main nor anything main owns; and main's next publish or
\* wake-up is enabled whatever has been received.
C9_PureProducer ==
    [][/\ ctrlReceived' # ctrlReceived =>
             /\ ctrlPc' = ctrlPc
             /\ UNCHANGED ctrlMainVars
       /\ ctrlPc = "send" => ENABLED CtrlSend
       /\ (ctrlPc = "sleep" /\ now >= ctrlWake) => ENABLED CtrlWake]_vars

\* The controller has published two commands, neither of which the charger
\* has handled, and has received a status meanwhile.
C9_Witness ==
    /\ Len(ctrlPublished) >= 2
    /\ ChargerSubscribed
    /\ chargerReceived = << >>
    /\ ctrlReceived # << >>

\* ---- C10 ---------------------------------------------------------------
\* C10: once a library call of the controller has thrown, the controller is
\* in the failed state and stays there, and publishes nothing more.
C10_FailureFatal ==
    [][/\ ctrlFailedAt' # "none" => ctrlPc' = "failed"
       /\ ctrlFailedAt # "none" =>
             /\ ctrlPc' = "failed"
             /\ ctrlPublished' = ctrlPublished
             /\ ctrlFailedAt' = ctrlFailedAt]_vars

\* The third publish threw seconds ago; two commands were published.
C10_Witness ==
    /\ ctrlFailedAt = "send"
    /\ ctrlPc = "failed"
    /\ Len(ctrlPublished) = 2
    /\ now >= 12

\* ---- C12 ---------------------------------------------------------------
\* The heartbeat loop is asleep with time left on its sleep_for.
HeartbeatSleeping == chgPc = "sleep" /\ now < hbWake

\* C12 as amended: the heartbeat never blocks command handling.  Whatever
\* the loop of main is doing (about to publish, or asleep with time left),
\* the handler can take up a message that is in flight to the subscribed
\* charger as soon as it is through with the one before, and can publish the
\* response of the message it is at; and under fair scheduling every message in flight is eventually
\* handled and the responses of the commands handled are published (or the
\* charger process has ended in a throwing library call, and with it the
\* delivery).  The processing is the publication alone: no state transition
\* is made.
C12_NotBlocked ==
    /\ [](\A m \in AllMsgs :
              (InFlight(m) # {} /\ inCallback = << >>) => ENABLED MessageArrived(m))
    /\ [](InCallback => ENABLED MessageArrivedPublish)
    /\ (cmdInFlight # EmptyBag) ~>
           (cmdInFlight = EmptyBag /\ ResponsesInOrder
                /\ (ChargerQuiet \/ chgPc = "failed"))
    /\ [](chargerState = NoState)

\* C12 as stated: a command handled while the heartbeat loop is asleep is
\* processed in full there and then: the state transition of the table is
\* made and the status is published.
C12_ProcessedAsleep ==
    [][\A m \in AllMsgs :
          (Answers(m) /\ Recognised(m) /\ HeartbeatSleeping /\ ~PublishThrows) =>
              /\ statusPublished' = Append(statusPublished, TableStatus(m.topic))
              /\ chargerState' = TableState(m.topic)]_vars

\* A command was handled and answered during the first sleep of the loop,
\* with seconds of that sleep still to go.
C12_Witness ==
    /\ HeartbeatSleeping
    /\ hbWake = 5
    /\ now <= 3
    /\ cmdInFlight = EmptyBag
    /\ inCallback = << >>
    /\ HandledCommands # << >>
    /\ IsResponse(statusPublished[Len(statusPublished)])

\* ---- C13 ---------------------------------------------------------------
\* The last status text other than the heartbeat, "none" if there is none.
LastResponse ==
    LET r == Responses(statusPublished)
    IN  IF r = << >> THEN "none" ELSE r[Len(r)]

\* The composed system at rest after the script: the controller has
\* disconnected, the charger runs, nothing is in flight and no publisher
\* other than the controller has sent a command.
ScriptSettled ==
    /\ ctrlPc = "done"
    /\ ChargerQuiet
    /\ cmdInFlight = EmptyBag
    /\ envCount = 0

\* C13 as stated: once the controller has disconnected and no message
\* remains in flight, the charger is in state Idle.
C13_EndsIdle == ScriptSettled => chargerState = "Idle"

\* C13 as amended: the wait before Stop outlasts the delivery of what was
\* published before it (nothing is in flight when the wait ends) and the
\* handler takes up one message at a time, so Stop and its copies are
\* handled after every other command (once a Stop is handled only Stops
\* follow), in whatever order
\* the commands sent back to back were delivered: once the controller has
\* disconnected and no message remains in flight, the last message handled
\* is Stop and the last response published is "Charging stopped".  The
\* charger holds no state that could be Idle.
C13_EndsStopped ==
    /\ (ctrlPc = "send" /\ Len(ctrlPublished) = Len(Script) - 1 /\ envCount = 0) =>
           cmdInFlight = EmptyBag
    /\ envCount = 0 =>
           \A i, j \in 1..Len(chargerReceived) :
               (i < j /\ IsStop(chargerReceived[i])) => IsStop(chargerReceived[j])
    /\ ScriptSettled =>
           /\ chargerReceived # << >>
           /\ IsStop(chargerReceived[Len(chargerReceived)])
           /\ LastResponse = "Charging stopped"
           /\ chargerState = NoState

\* The script has ended with SetCurrent(-20) handled before
\* EnableBidirectional and with one command delivered twice.
C13_Witness ==
    /\ ScriptSettled
    /\ dupCount = 1
    /\ Len(chargerReceived) = 6
    /\ chargerReceived[3] = Msg(TopicSC, "-20")
    /\ LastResponse = "Charging stopped"

\* ---- C14 ---------------------------------------------------------------
\* SetCurrent(32) and StartCharge, published back to back, have both been
\* delivered to the running charger, and nothing else has been sent.
FirstPairDelivered ==
    /\ Len(ctrlPublished) = 2
    /\ ChargerQuiet
    /\ cmdInFlight = EmptyBag
    /\ envCount = 0
    /\ \A k \in 1..2 : \E i \in 1..Len(chargerReceived) : chargerReceived[i] = Script[k]

\* C14 as stated: with both delivered the charger is in state Charging, in
\* whatever order they were delivered.
C14_ChargingBegun == FirstPairDelivered => chargerState = "Charging"

\* C14 as amended: with both delivered, both have been answered, in the
\* order of delivery, and the channel allows either order: the last response
\* is "Charging started" when SetCurrent(32) was delivered first and
\* "Charging current set" when StartCharge was.  The charger holds no state.
C14_OrderDecides ==
    FirstPairDelivered =>
        /\ { chargerReceived[i] : i \in 1..Len(chargerReceived) }
               = { Msg(TopicSC, "32"), Msg(TopicFE, "") }
        /\ Len(Responses(statusPublished)) = Len(chargerReceived)
        /\ LastResponse = TableStatus(chargerReceived[Len(chargerReceived)].topic)
        /\ chargerReceived = << Msg(TopicSC, "32"), Msg(TopicFE, "") >> =>
               Responses(statusPublished)
                   = << "Charging current set", "Charging started" >>
        /\ chargerReceived = << Msg(TopicFE, ""), Msg(TopicSC, "32") >> =>
               Responses(statusPublished)
                   = << "Charging started", "Charging current set" >>
        /\ chargerState = NoState

\* StartCharge was delivered before SetCurrent(32): the last response is
\* "Charging current set".
C14_Witness ==
    /\ FirstPairDelivered
    /\ chargerReceived = << Msg(TopicFE, ""), Msg(TopicSC, "32") >>
    /\ LastResponse = "Charging current set"

\* ---- C15 ---------------------------------------------------------------
States == {"Idle", "CurrentConfigured", "Charging", "Bidirectional"}

\* C15 as stated: the state is Idle at startup (and until a command has been
\* processed) and is always one of the four states.
C15_StateFrame ==
    /\ chargerState \in States
    /\ chargerReceived = << >> => chargerState = "Idle"

\* C15 as amended: the charger holds no state, at startup or later, and no
\* step gives it one, the processing of a recognised command included.  What
\* the steps do change is kept apart: the handler, in its print and in its
\* publish, leaves the loop of main and its sleep as they are (or ends the
\* process, when its publish throws); a pass of the loop (the heartbeat tick) handles no message and
\* publishes no response; a step of the controller's main changes nothing of
\* the charger.
C15_NoState ==
    [][/\ chargerState = NoState
       /\ chargerState' = NoState
       /\ (chargerReceived' # chargerReceived \/ inCallback' # inCallback) =>
             /\ chgPc' \in {chgPc, "failed"}
             /\ hbWake' = hbWake
       /\ chgPc' # chgPc =>
             /\ chargerReceived' = chargerReceived
             /\ Responses(statusPublished') = Responses(statusPublished)
       /\ (ctrlPc' # ctrlPc \/ ctrlSubs' # ctrlSubs) => UNCHANGED chargerVars]_vars

\* A heartbeat tick, an unrecognised message, a recognised command and the
\* controller's publishes have all happened, and there is still no state.
C15_Witness ==
    /\ HeartbeatCount >= 2
    /\ TopicUnknown \in HandledTopics
    /\ HandledCommands # << >>
    /\ Len(ctrlPublished) >= 2
    /\ chargerState = NoState

\* ---- C16 ---------------------------------------------------------------
\* C16 as stated: whenever "Charger is idle" is published, the state of the
\* charger at that moment is Idle.
C16_IdleWhenIdle ==
    [][HeartbeatCount' # HeartbeatCount => chargerState = "Idle"]_vars

\* C16 as amended: "Charger is idle" says that the loop of main is alive and
\* nothing about charging: it is published by a pass of the loop and by
\* nothing else, the pass handles no message, and no state exists at that
\* moment (whatever the last response was: see C16_Witness).
C16_LoopOnly ==
    [][HeartbeatCount' # HeartbeatCount =>
           /\ chgPc = "publish"
           /\ chgPc' = "sleep"
           /\ statusPublished' = Append(statusPublished, "Charger is idle")
           /\ chargerReceived' = chargerReceived
           /\ chargerState = NoState]_vars

\* "Charger is idle" was published as the status after "Charging started",
\* with charging started and never stopped.
C16_Witness ==
    /\ Len(statusPublished) >= 2
    /\ statusPublished[Len(statusPublished)] = "Charger is idle"
    /\ statusPublished[Len(statusPublished) - 1] = "Charging started"
    /\ TopicFS \notin HandledTopics

\* ---- C17 ---------------------------------------------------------------
\* A command was delivered in the current tick interval: a response has been
\* published since the heartbeat that began the interval.
CommandInInterval ==
    /\ HeartbeatCount >= 1
    /\ IsResponse(statusPublished[Len(statusPublished)])

\* This step is the tick of the heartbeat loop: main passes from publish to
\* sleep_for.
HeartbeatTick == chgPc = "publish" /\ chgPc' = "sleep"

\* C17 as stated: at a tick that ends an interval in which a command was
\* delivered, no "Charger is idle" is published.
C17_QuietOnly ==
    [][(HeartbeatTick /\ CommandInInterval) =>
           HeartbeatCount' = HeartbeatCount]_vars

\* C17 as amended: the heartbeat is published at every tick: the tick is
\* due as soon as the sleep has run out, and it publishes "Charger is idle"
\* and starts the next 5 s sleep whether or not a command was delivered in
\* the interval it ends.
C17_EveryTick ==
    /\ [](chgPc = "publish" => ENABLED HeartbeatPublish)
    /\ [][HeartbeatTick =>
             /\ statusPublished' = Append(statusPublished, "Charger is idle")
             /\ hbWake' = now + 5
             /\ CommandInInterval => HeartbeatCount' = HeartbeatCount + 1]_vars

\* The tick at 10 s has published the third heartbeat directly after the
\* responses to the commands delivered between 7 s and 10 s.
C17_Witness ==
    /\ now = 10
    /\ chgPc = "sleep"
    /\ HeartbeatCount = 3
    /\ Len(HandledCommands) >= 4
    /\ statusPublished[Len(statusPublished)] = "Charger is idle"
    /\ IsResponse(statusPublished[Len(statusPublished) - 1])
    /\ IsResponse(statusPublished[Len(statusPublished) - 2])

\* ---- C18 ---------------------------------------------------------------
\* The next statement of the controller's main can return.
CtrlCanStep ==
    ENABLED (CtrlConnect \/ CtrlSubscribe \/ CtrlWake \/ CtrlSend \/ CtrlDisconnect)

\* C18: the script runs to completion.  Under fair scheduling every run in
\* which no library call throws reaches the disconnected state with Stop
\* published last; before that the controller is never stuck (its next
\* statement can return, or it is in a sleep that ends at a time the clock
\* reaches); and no step without a failure aborts the script or skips a
\* part of it: the commands are published one at a time, and main is done
\* only with all five published.
C18_RunsToCompletion ==
    /\ <>(\/ ctrlFailedAt # "none"
          \/ /\ ctrlPc = "done"
             /\ Len(ctrlPublished) = 5
             /\ IsStop(ctrlPublished[5]))
    /\ []((ctrlFailedAt = "none" /\ ctrlPc # "done") =>
              \/ CtrlCanStep
              \/ (ctrlPc = "sleep" /\ now < ctrlWake /\ ctrlWake <= MaxTime))
    /\ [][ctrlFailedAt' = "none" =>
              /\ ctrlPc' # "failed"
              /\ \/ ctrlPublished' = ctrlPublished
                 \/ ctrlPublished' = Append(ctrlPublished, Sequence[Len(ctrlPublished) + 1])
              /\ ctrlPc' = "done" => ctrlPublished' = Sequence]_vars

\* The controller has run its script to the end with no charger on the
\* bus: it has received nothing and has published Stop and disconnected.
C18_Witness ==
    /\ ctrlPc = "done"
    /\ ctrlFailedAt = "none"
    /\ chgPc = "failed"
    /\ ctrlReceived = << >>
    /\ Len(ctrlPublished) = 5
    /\ IsStop(ctrlPublished[5])
    /\ now >= 17

\* ---- C19 ---------------------------------------------------------------
\* The state a status text stands for; Idle when no response was published.
StateOfStatus(t) ==
    CASE t = "Charging current set" -> "CurrentConfigured"
      [] t = "Charging started" -> "Charging"
      [] t = "V2G mode enabled" -> "Bidirectional"
      [] t = "Charging stopped" -> "Idle"
      [] t = "none" -> "Idle"

\* C19 as stated: between two commands the most recent status other than
\* the heartbeat corresponds to the current state of the charger, and the
\* state is Idle if none was published.
C19_FaithfulImage == ChargerQuiet => chargerState = StateOfStatus(LastResponse)

\* C19 as amended: the status text is an image of the last recognised
\* command processed, not of a state.  Between two commands the most recent
\* status other than the heartbeat is the table's text of the most recent
\* recognised command handled, whatever heartbeats and unrecognised messages
\* came after it, and none has been published if none was handled (a
\* command whose publish threw has ended the process and left the text of
\* the command before it).  The charger holds no state for the text to be an
\* image of.
C19_ImageOfLastCommand ==
    /\ HandledCommands = << >> => LastResponse = "none"
    /\ (InCallback /\ Recognised(Handled) /\ Len(HandledCommands) >= 2) =>
           LastResponse
               = TableStatus(HandledCommands[Len(HandledCommands) - 1].topic)
    /\ (HandledCommands # << >> /\ ChargerQuiet) =>
           LastResponse = TableStatus(HandledCommands[Len(HandledCommands)].topic)
    /\ LET n == Len(Responses(statusPublished))
       IN  n > 0 => LastResponse = TableStatus(HandledCommands[n].topic)
    /\ chargerState = NoState

\* EnableBidirectional was the last command handled; a heartbeat has been
\* published since, and the most recent response is still "V2G mode enabled".
C19_Witness ==
    /\ HandledCommands # << >>
    /\ HandledCommands[Len(HandledCommands)].topic = TopicV2G
    /\ statusPublished[Len(statusPublished)] = "Charger is idle"
    /\ LastResponse = "V2G mode enabled"

=============================================================================
